---- MODULE Spec2Model ----
(***************************************************************************)
(* cargo-tree: the dependency graph builder (main.rs build_graph), the     *)
(* duplicate finder and the two tree renderers (tree.rs print_package,     *)
(* main.rs print_dependency), as one state machine.  A run takes one       *)
(* resolved document and one set of command line arguments, builds the     *)
(* graph, and prints the tree(s) line by line into `out`.                  *)
(***************************************************************************)
EXTENDS Integers, Sequences, FiniteSets, Bags, TLC

\* Option<T>: None, or Some(x) with x == Unwrap(Some(x)).
None == <<>>
Some(x) == <<x>>
Unwrap(o) == o[1]

\* ------------------------------------------------------------------ bounds
\* Most dependency declarations in one resolved document.
MaxDeps == 4
\* Most declarations of a document that are not a plain single Normal one.
MaxExtra == 2
\* Largest --depth argument tried (besides no --depth at all).
MaxDepthArg == 3
\* Call-stack budget of the process, in nested print calls.
MaxStack == 6

\* ------------------------------------------------------- package identities
\* The packages a document may mention.  Strings are kept as sequences of
\* byte values so that they can be compared the way Rust compares `String`.
\* Index 1 is the workspace's current package.
PackageIds ==
  << [name |-> <<97>>, version |-> <<0, 1, 0>>,  source |-> <<114>>],  \* a 0.1.0
     [name |-> <<99>>, version |-> <<0, 1, 0>>,  source |-> <<114>>],  \* c 0.1.0
     [name |-> <<98>>, version |-> <<0, 10, 0>>, source |-> <<114>>],  \* b 0.10.0
     [name |-> <<98>>, version |-> <<0, 9, 0>>,  source |-> <<114>>] >> \* b 0.9.0

Pkgs == DOMAIN PackageIds
WorkspaceRoot == CHOOSE p \in Pkgs : \A q \in Pkgs : p <= q

\* Kind::{Normal, Build, Development}
KindSeq == <<"Normal", "Build", "Development">>
Kinds == {KindSeq[i] : i \in DOMAIN KindSeq}

\* Lexicographic order on sequences of numbers: Ord for str, Vec and tuples.
RECURSIVE LexLess(_, _)
LexLess(s, t) ==
  IF t = <<>> THEN FALSE
  ELSE IF s = <<>> THEN TRUE
  ELSE IF Head(s) # Head(t) THEN Head(s) < Head(t)
  ELSE LexLess(Tail(s), Tail(t))

\* The decimal digits of n, as bytes.
RECURSIVE Digits(_)
Digits(n) == IF n < 10 THEN <<48 + n>> ELSE Digits(n \div 10) \o <<48 + (n % 10)>>

\* Display of a semver::Version: major.minor.patch
VersionStr(v) == Digits(v[1]) \o <<46>> \o Digits(v[2]) \o <<46>> \o Digits(v[3])

\* str::split(sep): the pieces of s between the separators, at least one.
RECURSIVE Split(_, _)
Split(s, sep) ==
  IF \A i \in DOMAIN s : s[i] # sep THEN <<s>>
  ELSE LET at == CHOOSE i \in DOMAIN s : s[i] = sep /\ \A j \in 1..(i - 1) : s[j] # sep
       IN  <<SubSeq(s, 1, at - 1)>> \o Split(SubSeq(s, at + 1, Len(s)), sep)

\* The number a string of decimal digits stands for.
RECURSIVE DigitsValue(_)
DigitsValue(b) ==
  IF b = <<>> THEN 0 ELSE 10 * DigitsValue(SubSeq(b, 1, Len(b) - 1)) + (b[Len(b)] - 48)

\* A numeric identifier of a version: digits, without a leading zero.
IsNumeric(b) ==
  /\ b # <<>>
  /\ \A i \in DOMAIN b : b[i] \in 48..57
  /\ Len(b) > 1 => b[1] # 48

\* semver Version::parse of major.minor.patch: Some(version), or None for an
\* error.
ParseVersion(b) ==
  LET parts == Split(b, 46)
  IN  IF Len(parts) = 3 /\ \A i \in 1..3 : IsNumeric(parts[i])
      THEN Some([i \in 1..3 |-> DigitsValue(parts[i])])
      ELSE None

\* A package query "name" or "name:version" taken apart (tree.rs 86-92):
\* what follows a second colon is not looked at.
ParseQuery(s) ==
  LET it == Split(s, 58)
      version == IF Len(it) >= 2 THEN ParseVersion(it[2]) ELSE None
  IN  [ok |-> Len(it) < 2 \/ version # None, name |-> it[1], version |-> version]

\* cargo::core::PackageId (main.rs): Ord compares name, then the semantic
\* version, then the source.
CargoIdLess(p, q) ==
  LET a == PackageIds[p]
      b == PackageIds[q]
  IN  IF a.name # b.name THEN LexLess(a.name, b.name)
      ELSE IF a.version # b.version THEN LexLess(a.version, b.version)
      ELSE LexLess(a.source, b.source)

\* cargo_metadata::PackageId (tree.rs) is the opaque string cargo prints for
\* the package, "name version (source)", and its Ord is the string's.
Repr(p) ==
  LET a == PackageIds[p]
  IN  a.name \o <<32>> \o VersionStr(a.version) \o <<32, 40>> \o a.source \o <<41>>

MetadataIdLess(p, q) == LexLess(Repr(p), Repr(q))

CargoOrd == [p \in Pkgs, q \in Pkgs |-> CargoIdLess(p, q)]
MetadataOrd == [p \in Pkgs, q \in Pkgs |-> MetadataIdLess(p, q)]

\* The order of the PackageId type the program is built with.
IdLess(prog, p, q) ==
  IF prog = "main" THEN CargoOrd[p, q] ELSE MetadataOrd[p, q]

\* slice::sort_by_key / sort: a stable sort by package id, here by insertion.
RECURSIVE InsertSorted(_, _, _)
InsertSorted(prog, s, x) ==
  IF s = <<>> THEN <<x>>
  ELSE IF IdLess(prog, x, Head(s)) THEN <<x>> \o s
  ELSE <<Head(s)>> \o InsertSorted(prog, Tail(s), x)

RECURSIVE SortById(_, _)
SortById(prog, s) ==
  IF s = <<>> THEN <<>>
  ELSE InsertSorted(prog, SortById(prog, SubSeq(s, 1, Len(s) - 1)), s[Len(s)])

\* Some enumeration of a finite set (the order a hash map iterates in).
RECURSIVE SetToSeq(_)
SetToSeq(S) ==
  IF S = {} THEN <<>>
  ELSE LET x == CHOOSE y \in S : TRUE IN <<x>> \o SetToSeq(S \ {x})


\* --------------------------------------------------------------- documents
\* A dependency declaration of package src's manifest that the resolver
\* matched to package tgt.  n tells apart two declarations of the same kind
\* (the same dependency under two [target.'cfg(..)'.dependencies] tables).
\* The resolver only follows the development dependencies of workspace
\* members; the model also keeps Build and repeated declarations to the
\* workspace package, to bound the number of documents.
Decls ==
  { d \in [src : Pkgs, tgt : Pkgs, kind : Kinds, n : {1, 2}] :
      /\ d.src # d.tgt
      /\ (d.kind # "Normal" \/ d.n > 1) => d.src = WorkspaceRoot
      /\ d.n > 1 => d.kind = "Normal" }

IsExtra(d) == d.kind # "Normal" \/ d.n > 1

\* The packages reachable from the set S over the edge relation E (pairs).
RECURSIVE ReachFrom(_, _)
ReachFrom(S, E) ==
  LET T == S \cup {e[2] : e \in {f \in E : f[1] \in S}}
  IN  IF T = S THEN S ELSE ReachFrom(T, E)

DeclPairs(doc) == {<<d.src, d.tgt>> : d \in doc}

\* What cargo's resolver can hand over: a repeated declaration has its first,
\* the non-development dependencies are acyclic (cargo rejects such cycles;
\* a cycle through a dev-dependency is legal), and every package that
\* declares something is reachable from the workspace package.
WellFormed(doc) ==
  /\ \A d \in doc : d.n > 1 => [d EXCEPT !.n = 1] \in doc
  /\ LET E == DeclPairs({d \in doc : d.kind # "Development"})
     IN  \A p \in Pkgs : p \notin ReachFrom({e[2] : e \in {f \in E : f[1] = p}}, E)
  /\ \A d \in doc : d.src \in ReachFrom({WorkspaceRoot}, DeclPairs(doc))

RECURSIVE DocsUpTo(_)
DocsUpTo(k) ==
  IF k = 0 THEN {{}}
  ELSE LET D == DocsUpTo(k - 1)
       IN  D \cup {d \cup {c} : d \in D, c \in Decls}

Documents ==
  { doc \in DocsUpTo(MaxDeps) :
      /\ Cardinality({d \in doc : IsExtra(d)}) <= MaxExtra
      /\ WellFormed(doc) }

\* The format argument as the pattern parser hands it on: raw chunks, each a
\* text or an argument {name}.
DefaultFormat == << [t |-> "Argument", a |-> "p"] >>
Formats == { DefaultFormat, << [t |-> "Argument", a |-> "x"] >> }

\* Pattern::new: the arguments p, l and r are supported, any other is an
\* error, and so is an error of the parser.
PatternNew(format) ==
  \A i \in DOMAIN format :
    \/ format[i].t = "Text"
    \/ format[i].t = "Argument" /\ format[i].a \in {"p", "l", "r"}


\* --------------------------------------------------------------- arguments
\* A --package query: a name, or name:version.
Queries ==
  { None,
    Some(<<98>>) }                                           \* -p b

DepthArgs == {None} \cup {Some(d) : d \in 0..MaxDepthArg}

\* Args (main.rs 41-120, args.rs 19-92).  args.rs has no --depth.  With
\* --duplicate the --package and --invert flags change nothing that is
\* printed, so they are left unset there.  To bound the number of runs a
\* --depth is tried with the default prefix (Indent, the one with headers).
\* The runs with --no-dev-dependencies or with an unsupported format are
\* tried with the other flags that shape the tree left at their defaults.
PlainTree(a) == ~a.all /\ ~a.invert /\ a.prefix = "Indent" /\ a.depth = None

ArgSets(program) ==
  { a \in [all : BOOLEAN, depth : DepthArgs, invert : BOOLEAN,
           duplicates : BOOLEAN, package : Queries,
           prefix : {"None", "Indent", "Depth"},
           format : Formats, no_dev_dependencies : BOOLEAN] :
      /\ program = "tree" => a.depth = None
      /\ a.depth # None => a.prefix = "Indent"
      /\ a.duplicates => (a.package = None /\ ~a.invert)
      /\ a.format # DefaultFormat => (PlainTree(a) /\ ~a.no_dev_dependencies)
      /\ a.no_dev_dependencies =>
            (PlainTree(a) /\ a.package = None /\ ~a.duplicates) }

\* ------------------------------------------------------------------- state
VARIABLES
  prog,             \* "main": src/main.rs;  "tree": src/tree.rs
  args,             \* the parsed command line
  doc,              \* the resolver's document: a set of declarations
  current,          \* Option: the workspace's current package (the graph's root)
  result,           \* Option: the Result the run returned with, once it has
  kinds,            \* graph.rs: the kinds Graph::build is asked for
  pending,          \* graph.rs: the stack `pending` of Graph::build
  pc,               \* "start", "print", "done", "error", "overflow"
  graph,            \* Graph: node (id -> Node), edges (a bag of [source, target, kind])
  roots,            \* the roots still to be printed (duplicates mode)
  tree_no,          \* number of the tree being printed
  visited_deps,     \* tree.rs print_tree: visited_deps
  levels_continue,  \* print_tree: levels_continue
  stack,            \* the active print calls: [pkg, ki, deps, path, line] each
  call,             \* Option of the call about to run: [pkg, kind, path, parent]
  out               \* the lines written to stdout

vars == <<prog, args, doc, current, result, kinds, pending, pc, graph, roots,
          tree_no, visited_deps, levels_continue, stack, call, out>>

printVars == <<roots, tree_no, visited_deps, levels_continue, stack, call, out>>

EmptyGraph == [node |-> <<>>, edges |-> EmptyBag]

\* A virtual workspace has no current package; it is tried with the flags
\* that shape the tree left at their defaults.
Init ==
  /\ doc \in Documents
  /\ prog \in {"main", "tree"}
  /\ args \in ArgSets(prog)
  /\ current \in {Some(WorkspaceRoot)} \cup
                 {c \in {None} : PlainTree(args) /\ args.format = DefaultFormat
                                  /\ ~args.no_dev_dependencies}
  /\ result = None
  /\ kinds = {}
  /\ pending = <<>>
  /\ pc = "start"
  /\ graph = EmptyGraph
  /\ roots = <<>>
  /\ tree_no = 0
  /\ visited_deps = {}
  /\ levels_continue = <<>>
  /\ stack = <<>>
  /\ call = None
  /\ out = <<>>

\* The declarations the resolver follows: with --no-dev-dependencies not the
\* development dependencies (Method::Required { dev_deps: false, .. }).
Activated(d) ==
  IF args.no_dev_dependencies THEN {x \in d : x.kind # "Development"} ELSE d

\* The packages of the resolve: the workspace package and all it reaches.
Resolved(d) == ReachFrom({WorkspaceRoot}, DeclPairs(Activated(d)))

\* ------------------------------------------------------------------- graph
HasNode(g, p) == p \in DOMAIN g.node

\* Node { id, metadata, depth_first_seen, is_duplicate } added to the graph.
AddNode(g, p, depth) ==
  [g EXCEPT !.node = [q \in DOMAIN g.node \cup {p} |->
                        IF q = p THEN [depth_first_seen |-> depth, is_duplicate |-> FALSE]
                        ELSE g.node[q]]]

\* petgraph add_edge: always a new edge, also beside an equal one.
AddEdge(g, s, t, k) ==
  [g EXCEPT !.edges = @ (+) SetToBag({[source |-> s, target |-> t, kind |-> k]})]

\* petgraph edges_directed: the edges leaving (Outgoing) or entering
\* (Incoming) n, each as often as it was added.  The order they come in is
\* that of the node's adjacency list; the model takes some order.
EdgesDirected(g, n, dir) ==
  LET at == {e \in BagToSet(g.edges) :
               IF dir = "Outgoing" THEN e.source = n ELSE e.target = n}
      es == SetToSeq({x \in at \X (1..MaxDeps) : x[2] <= CopiesIn(x[1], g.edges)})
  IN  [j \in DOMAIN es |-> es[j][1]]

\* A find_package that would compare the name alone.
MatchesByName(query, ids) == {p \in ids : PackageIds[p].name = query.name}

\* The packages matching a parsed query by name and, if given, version.
Matches(query, ids) ==
  { p \in ids :
      /\ PackageIds[p].name = query.name
      /\ query.version # None => PackageIds[p].version = Unwrap(query.version) }


\* ------------------------------------------------------- main.rs: the build
\* resolve.query(pkg): the one package of the resolve the spec matches.
ResolveQuery(query, d) ==
  LET q == ParseQuery(query)
      m == Matches(q, Resolved(d))
  IN  IF q.ok /\ Cardinality(m) = 1 THEN Some(CHOOSE p \in m : TRUE) ELSE None

\* The max_depth real_main hands to build_graph.
BuildMaxDepth(a) == IF a.duplicates \/ a.package # None THEN None ELSE a.depth

\* resolve.deps_not_replaced(pkg_id): in no particular order.
DepsNotReplaced(d, pkg) == {x.tgt : x \in {y \in Activated(d) : y.src = pkg}}

\* pkg.dependencies() filtered to those matching dep_id, in manifest order.
RECURSIVE DeclSeq(_)
DeclSeq(ds) ==
  IF ds = {} THEN <<>>
  ELSE LET Rank(x) == (CHOOSE i \in DOMAIN KindSeq : KindSeq[i] = x.kind) * 2 + x.n
           x == CHOOSE y \in ds : \A z \in ds : Rank(y) <= Rank(z)
       IN  <<x>> \o DeclSeq(ds \ {x})

MatchingDeps(d, pkg, dep_id) == DeclSeq({x \in d : x.src = pkg /\ x.tgt = dep_id})

\* Whether a newly found package is queued for its own dependencies.
PushesPending(max_depth, depth) == max_depth = None \/ depth < Unwrap(max_depth)

\* The body of `for dep in it`: the graph and the queue after the declarations
\* `it` of pkg_id on dep_id.
RECURSIVE AddDeps(_, _, _, _, _, _)
AddDeps(g, q, it, pkg_id, depth, max_depth) ==
  IF it = <<>> THEN [graph |-> g, pending |-> q]
  ELSE
    LET dep == Head(it)
        dep_id == dep.tgt
        occupied == HasNode(g, dep_id)
        g1 == IF occupied
              THEN [g EXCEPT !.node[dep_id].is_duplicate = TRUE]
              ELSE AddNode(g, dep_id, depth)
        q1 == IF ~occupied /\ PushesPending(max_depth, depth)
              THEN Append(q, dep_id) ELSE q
    IN  AddDeps(AddEdge(g1, pkg_id, dep_id, dep.kind), q1, Tail(it), pkg_id,
                depth, max_depth)

\* The locals of build_graph while its loop runs: the graph, the queue
\* `pending`, the package `cur` of the running iteration with its dependencies
\* still `todo`, and current_depth.
\* This is the state before the loop: the workspace package is the first node.
BuildStart ==
  [graph |-> AddNode(EmptyGraph, WorkspaceRoot, 0), pending |-> <<WorkspaceRoot>>,
   cur |-> None, todo |-> {}, current_depth |-> 1]

\* `while let Some(pkg_id) = pending.pop_front()`: the next package; one
\* without dependencies ends its iteration at once.
BuildPop(b, d) ==
  LET pkg_id == Head(b.pending)
      deps == DepsNotReplaced(d, pkg_id)
  IN  IF deps = {}
      THEN [b EXCEPT !.pending = Tail(b.pending),
                     !.current_depth = b.current_depth + 1]
      ELSE [b EXCEPT !.pending = Tail(b.pending), !.cur = Some(pkg_id),
                     !.todo = deps]

\* One turn of `for raw_dep_id in resolve.deps_not_replaced(pkg_id)`; after
\* the last one the iteration of the outer loop ends: current_depth += 1.
BuildDep(b, d, raw_dep_id, max_depth) ==
  LET r == AddDeps(b.graph, b.pending, MatchingDeps(d, Unwrap(b.cur), raw_dep_id),
                   Unwrap(b.cur), b.current_depth, max_depth)
      last == b.todo = {raw_dep_id}
  IN  [graph |-> r.graph,
       pending |-> r.pending,
       cur |-> IF last THEN None ELSE b.cur,
       todo |-> b.todo \ {raw_dep_id},
       current_depth |-> IF last THEN b.current_depth + 1 ELSE b.current_depth]

\* The graphs the loop can end with, over the orders in which
\* deps_not_replaced may yield a package's dependencies.
RECURSIVE BuildLoop(_, _, _)
BuildLoop(b, d, max_depth) ==
  IF b.cur # None
  THEN UNION {BuildLoop(BuildDep(b, d, raw, max_depth), d, max_depth) : raw \in b.todo}
  ELSE IF b.pending # <<>>
  THEN BuildLoop(BuildPop(b, d), d, max_depth)
  ELSE {b.graph}

\* build_graph: `if Some(0) == max_depth { return Ok(graph) }`, else the loop.
BuildGraph(d, max_depth) ==
  IF max_depth = Some(0) THEN {BuildStart.graph}
  ELSE BuildLoop(BuildStart, d, max_depth)

\* ------------------------------------------------------ duplicates and roots
\* main.rs find_duplicates: count the graph's ids by name, collect the ids of
\* every name counted more than once, sort them.
FindDuplicatesMain(g) ==
  LET keys == DOMAIN g.node
      counts == [nm \in {PackageIds[p].name : p \in keys} |->
                   Cardinality({p \in keys : PackageIds[p].name = nm})]
      dup_names == {nm \in DOMAIN counts : counts[nm] > 1}
      dup_ids == {p \in keys : PackageIds[p].name \in dup_names}
  IN  SortById("main", SetToSeq(dup_ids))

\* tree.rs find_duplicates: group the nodes' ids by name, collect the groups
\* longer than one, sort them.
FindDuplicatesTree(g) ==
  LET ids == DOMAIN g.node
      packages == [nm \in {PackageIds[p].name : p \in ids} |->
                     {p \in ids : PackageIds[p].name = nm}]
      duplicates == UNION {packages[nm] : nm \in
                             {x \in DOMAIN packages : Cardinality(packages[x]) > 1}}
  IN  SortById("tree", SetToSeq(duplicates))

\* The Result of a fallible call: Ok(id), or Err with its message, which may
\* list package specs.
Ok(id) == [ok |-> TRUE, id |-> id, error |-> "", specs |-> <<>>]
Err(msg, specs) == [ok |-> FALSE, id |-> 0, error |-> msg, specs |-> specs]

\* format!("{}:{}", p.name, p.version)
NameVersion(p) == PackageIds[p].name \o <<58>> \o VersionStr(PackageIds[p].version)

\* tree.rs find_package: the candidates among the graph's nodes; exactly one
\* is the answer, none or several an error, the latter naming the candidates.
FindPackageResult(query, g) ==
  LET q == ParseQuery(query)
      candidates == SetToSeq(Matches(q, DOMAIN g.node))
  IN  IF ~q.ok THEN Err("error parsing package version", <<>>)
      ELSE IF candidates = <<>> THEN Err("no crates found for package", <<>>)
      ELSE IF Len(candidates) > 1
      THEN Err("multiple crates found for package",
               [i \in DOMAIN candidates |-> NameVersion(candidates[i])])
      ELSE Ok(candidates[1])

\* The package find_package finds, if it finds one.
FindPackage(query, g) ==
  LET r == FindPackageResult(query, g)
  IN  IF r.ok THEN Some(r.id) ELSE None

\* The graph crate::graph hands to tree.rs: one node per resolved package,
\* one edge per declared (source, target, kind).
MetadataGraph(d) ==
  LET es == SetToBag({[source |-> x.src, target |-> x.tgt, kind |-> x.kind] :
                        x \in Activated(d)})
  IN  [node |-> [p \in Resolved(d) |-> [depth_first_seen |-> 0, is_duplicate |-> FALSE]],
       edges |-> es]

\* ---------------------------------------------------------------- rendering
\* A direction chosen from the invert flag alone.
DirectionIgnoringDuplicates(a) == IF a.invert THEN "Incoming" ELSE "Outgoing"

\* `if args.invert || args.duplicates { Incoming } else { Outgoing }`
Direction(a) == IF a.invert \/ a.duplicates THEN "Incoming" ELSE "Outgoing"

\* The far ends of the edges of kind k at n, in the order the graph yields them.
DepsOfKind(g, n, dir, k) ==
  LET es == SelectSeq(EdgesDirected(g, n, dir), LAMBDA e : e.kind = k)
  IN  [i \in DOMAIN es |-> IF dir = "Incoming" THEN es[i].source ELSE es[i].target]

\* deps.sort_by_key(|p| p.id)
SortedDeps(program, g, n, dir, k) == SortById(program, DepsOfKind(g, n, dir, k))

\* The group header's text; the Normal group has none.
HeaderName(k) ==
  CASE k = "Normal" -> None
    [] k = "Build" -> Some("[build-dependencies]")
    [] k = "Development" -> Some("[dev-dependencies]")

\* A print_dependencies that would print the header under every prefix style.
PrintsHeaderAnyPrefix(prefix, k) == HeaderName(k) # None

\* `if let Prefix::Indent = prefix { if let Some(name) = name { .. println } }`
PrintsHeader(prefix, k) == prefix = "Indent" /\ HeaderName(k) # None

Front(s) == SubSeq(s, 1, Len(s) - 1)

\* The glyphs of the two character sets, as code points.
UTF8_SYMBOLS == [down |-> 9474, tee |-> 9500, ell |-> 9492, right |-> 9472]
ASCII_SYMBOLS == [down |-> 124, tee |-> 124, ell |-> 96, right |-> 45]

\* `for continues in rest { print!("{}   ", c) }`: per level the down glyph or
\* a blank, and three blanks.
RECURSIVE ContinuesPrefix(_, _)
ContinuesPrefix(symbols, lv) ==
  IF lv = <<>> THEN <<>>
  ELSE <<IF Head(lv) THEN symbols.down ELSE 32, 32, 32, 32>>
         \o ContinuesPrefix(symbols, Tail(lv))

\* What print_package / print_dependency print before the package: the depth
\* (main.rs "{} ", tree.rs "{}"), or the continuation glyphs of all levels but
\* the last and the branch of the last, or nothing.
PackagePrefix(program, prefix, symbols, lv) ==
  IF prefix = "Depth"
  THEN Digits(Len(lv)) \o (IF program = "main" THEN <<32>> ELSE <<>>)
  ELSE IF prefix = "Indent" /\ lv # <<>>
  THEN ContinuesPrefix(symbols, Front(lv))
       \o <<IF lv[Len(lv)] THEN symbols.tee ELSE symbols.ell,
            symbols.right, symbols.right, 32>>
  ELSE <<>>

\* What is printed before the name of a group's header.
HeaderPrefix(symbols, lv) == ContinuesPrefix(symbols, lv)

\* A line of output.  Beside what is printed (the prefix from `levels`, the
\* package or the header of `kind`, the star) a line records where in the
\* traversal it was printed: the tree, the line of the parent package (0 for
\* a root) and the path of (kind, package) steps from the root.
PkgLine(c, star, lv, tno) ==
  [t |-> "pkg", pkg |-> c.pkg, kind |-> c.kind, star |-> star, levels |-> lv,
   parent |-> c.parent, path |-> Append(c.path, <<c.kind, c.pkg>>), tree |-> tno]

HeaderLine(f, k, lv, tno) ==
  [t |-> "header", pkg |-> f.pkg, kind |-> k, star |-> FALSE, levels |-> lv,
   parent |-> f.line, path |-> f.path, tree |-> tno]

BlankLine(tno) ==
  [t |-> "blank", pkg |-> 0, kind |-> "None", star |-> FALSE, levels |-> <<>>,
   parent |-> 0, path |-> <<>>, tree |-> tno]

\* levels_continue.pop() by the caller once a child's call has returned; the
\* root's call has no caller in the traversal.
PopLevel(st, lv) == IF st = <<>> THEN lv ELSE Front(lv)

\* The run of the innermost active call from where it stands up to the next
\* call of print_package / print_dependency, or to the end of the traversal:
\* the loop over a group's sorted children (levels_continue.push, call), the
\* step to the next non-empty group with its header, and the return to the
\* caller when the Development group is done.
RECURSIVE Advance(_)
Advance(r) ==
  IF r.stack = <<>> THEN r
  ELSE
    LET top == Len(r.stack)
        f == r.stack[top]
    IN  IF f.deps # <<>>
        THEN [r EXCEPT !.stack[top].deps = Tail(f.deps),
                       !.levels = Append(r.levels, Len(f.deps) > 1),
                       !.call = Some([pkg |-> Head(f.deps), kind |-> KindSeq[f.ki],
                                      path |-> f.path, parent |-> f.line])]
        ELSE IF f.ki = Len(KindSeq)
        THEN Advance([r EXCEPT !.stack = Front(r.stack),
                               !.levels = PopLevel(Front(r.stack), r.levels)])
        ELSE
          LET k == KindSeq[f.ki + 1]
              deps == SortedDeps(prog, graph, f.pkg, Direction(args), k)
          IN  IF deps = <<>>
              THEN Advance([r EXCEPT !.stack[top].ki = f.ki + 1])
              ELSE Advance([r EXCEPT
                     !.stack[top].ki = f.ki + 1,
                     !.stack[top].deps = deps,
                     !.out = IF PrintsHeader(args.prefix, k)
                             THEN Append(r.out, HeaderLine(f, k, r.levels, tree_no))
                             ELSE r.out])

\* The call c printed its line; if it expands it becomes the innermost active
\* call, otherwise it returns.
AfterLine(c, line, expands) ==
  Advance([stack |-> IF expands
                     THEN Append(stack, [pkg |-> c.pkg, ki |-> 0, deps |-> <<>>,
                                         path |-> line.path, line |-> Len(out) + 1])
                     ELSE stack,
           levels |-> IF expands THEN levels_continue
                      ELSE PopLevel(stack, levels_continue),
           out |-> Append(out, line),
           call |-> None])

RootCall(p) == Some([pkg |-> p, kind |-> "Root", path |-> <<>>, parent |-> 0])

\* A print_tree that would go on with the visited set of the tree before.
BeginTreeKeepingVisited(rs, o, tno) ==
  /\ call' = RootCall(Head(rs))
  /\ roots' = Tail(rs)
  /\ tree_no' = tno
  /\ visited_deps' = visited_deps
  /\ levels_continue' = <<>>
  /\ stack' = <<>>
  /\ out' = o
  /\ pc' = "print"

\* print_tree: fresh visited_deps and levels_continue, then the root's call.
BeginTree(rs, o, tno) ==
  /\ call' = RootCall(Head(rs))
  /\ roots' = Tail(rs)
  /\ tree_no' = tno
  /\ visited_deps' = {}
  /\ levels_continue' = <<>>
  /\ stack' = <<>>
  /\ out' = o
  /\ pc' = "print"

\* A lookup that misses the newest b.
NodesGetButNewest(g, package) ==
  IF HasNode(g, package) /\ package # 3 THEN Some(package) ELSE None

\* main.rs print_tree: graph.nodes.get(package).
NodesGet(g, package) == IF HasNode(g, package) THEN Some(package) ELSE None

\* A run that returns an error: nothing else changes.
Fail(r) ==
  /\ pc' = "error"
  /\ result' = Some(r)
  /\ UNCHANGED printVars

\* The traversal state r after a line: on to the next call, or, the tree being
\* complete, on to the next duplicate's tree (a blank line between trees in
\* tree.rs, after each tree in main.rs) or to the end.
Continue(r, visited) ==
  IF r.call # None
  THEN /\ stack' = r.stack
       /\ levels_continue' = r.levels
       /\ out' = r.out
       /\ call' = r.call
       /\ visited_deps' = visited
       /\ UNCHANGED <<roots, tree_no, pc, result>>
  ELSE LET o == IF prog = "main" /\ args.duplicates
                THEN Append(r.out, BlankLine(tree_no)) ELSE r.out
       IN  IF roots = <<>>
           THEN /\ pc' = "done"
                /\ call' = None
                /\ out' = o
                /\ stack' = r.stack
                /\ levels_continue' = r.levels
                /\ visited_deps' = visited
                /\ UNCHANGED <<roots, tree_no, result>>
           ELSE IF prog = "main" /\ NodesGet(graph, Head(roots)) = None
           THEN /\ pc' = "error"
                /\ result' = Some(Err("package not found", <<>>))
                /\ call' = None
                /\ out' = o
                /\ stack' = r.stack
                /\ levels_continue' = r.levels
                /\ visited_deps' = visited
                /\ UNCHANGED <<roots, tree_no>>
           ELSE /\ BeginTree(roots,
                             IF prog = "tree" THEN Append(o, BlankLine(tree_no)) ELSE o,
                             tree_no + 1)
                /\ UNCHANGED result


\* tree.rs print_package: whether the package is printed in full.
\* `all || visited_deps.insert(&package.id)`
IsNewTree(all, visited, p) == all \/ p \notin visited

\* visited_deps after that line: insert runs only if `all` is false.
VisitedAfter(all, visited, p) == IF all THEN visited ELSE visited \cup {p}

\* A print_dependency whose truncation would not look at `all`.
IsNewMainIgnoringAll(all, node, len) ==
  ~node.is_duplicate \/ len <= node.depth_first_seen

\* main.rs print_dependency: whether the package is printed in full.
\* `all || (!package.is_duplicate || levels_continue.len() <= package.depth_first_seen)`
IsNewMain(all, node, len) ==
  all \/ (~node.is_duplicate \/ len <= node.depth_first_seen)

\* A print_dependency that would stop one level below the limit.
DepthReachedBelowLimit(max_depth, len) == max_depth # None /\ len > Unwrap(max_depth)

\* main.rs print_dependency: `max_depth.map_or_else(|| false, |d| levels_continue.len() >= d)`
DepthReached(max_depth, len) == max_depth # None /\ len >= Unwrap(max_depth)

\* The process runs out of stack when the recursion gets this deep.
StackExhausted(lv) == Len(lv) >= MaxStack

\* tree.rs print: the pattern is parsed, then either a tree per duplicate or
\* the tree of the root, which is the package found for the query or the
\* graph's root.
PrintTrees ==
  /\ pc = "start"
  /\ prog = "tree"
  /\ LET g == MetadataGraph(doc)
         found == IF args.package # None
                  THEN FindPackageResult(Unwrap(args.package), g)
                  ELSE IF current # None THEN Ok(Unwrap(current))
                  ELSE Err("this command requires running against an actual package in this workspace", <<>>)
         rs == IF args.duplicates THEN FindDuplicatesTree(g)
               ELSE IF found.ok THEN Some(found.id) ELSE None
     IN  /\ graph' = g
         /\ IF ~PatternNew(args.format)
            THEN Fail(Err("unsupported pattern", <<>>))
            ELSE IF ~args.duplicates /\ ~found.ok
            THEN Fail(found)
            ELSE IF rs = <<>>
            THEN /\ pc' = "done"
                 /\ UNCHANGED <<printVars, result>>
            ELSE /\ BeginTree(rs, out, 1)
                 /\ UNCHANGED result
  /\ UNCHANGED <<prog, args, doc, current, kinds, pending>>

\* main.rs real_main: the workspace's current package, the root (resolve.query
\* fails on no or several matches), the pattern, the graph, then either a tree
\* per duplicate or the tree of the root; print_tree bails if its root is no
\* node of the graph.
RealMain ==
  /\ pc = "start"
  /\ prog = "main"
  /\ LET root == IF args.package # None THEN ResolveQuery(Unwrap(args.package), doc)
                 ELSE current
     IN  IF current = None
         THEN Fail(Err("no current package", <<>>)) /\ UNCHANGED graph
         ELSE IF root = None
         THEN Fail(Err("package id specification did not match one package", <<>>))
              /\ UNCHANGED graph
         ELSE IF ~PatternNew(args.format)
         THEN Fail(Err("unsupported pattern", <<>>)) /\ UNCHANGED graph
         ELSE \E g \in BuildGraph(doc, BuildMaxDepth(args)) :
                LET rs == IF args.duplicates THEN FindDuplicatesMain(g) ELSE root
                IN  /\ graph' = g
                    /\ IF rs = <<>>
                       THEN /\ pc' = "done"
                            /\ UNCHANGED <<printVars, result>>
                       ELSE IF NodesGet(g, Head(rs)) = None
                       THEN Fail(Err("package not found", <<>>))
                       ELSE /\ BeginTree(rs, out, 1)
                            /\ UNCHANGED result
  /\ UNCHANGED <<prog, args, doc, current, kinds, pending>>

\* tree.rs print_package, with the print_dependencies loops up to the next call.
PrintPackage ==
  /\ pc = "print"
  /\ prog = "tree"
  /\ call # None
  /\ IF StackExhausted(levels_continue)
     THEN /\ pc' = "overflow"
          /\ UNCHANGED <<printVars, result>>
     ELSE LET c == Unwrap(call)
              new == IsNewTree(args.all, visited_deps, c.pkg)
              line == PkgLine(c, ~new, levels_continue, tree_no)
          IN  Continue(AfterLine(c, line, new),
                       VisitedAfter(args.all, visited_deps, c.pkg))
  /\ UNCHANGED <<prog, args, doc, current, kinds, pending, graph>>

\* main.rs print_dependency, with the print_dependency_kind loops up to the
\* next call.
PrintDependency ==
  /\ pc = "print"
  /\ prog = "main"
  /\ call # None
  /\ IF StackExhausted(levels_continue)
     THEN /\ pc' = "overflow"
          /\ UNCHANGED <<printVars, result>>
     ELSE LET c == Unwrap(call)
              len == Len(levels_continue)
              new == IsNewMain(args.all, graph.node[c.pkg], len)
              line == PkgLine(c, ~new, levels_continue, tree_no)
          IN  Continue(AfterLine(c, line, new /\ ~DepthReached(args.depth, len)),
                       visited_deps)
  /\ UNCHANGED <<prog, args, doc, current, kinds, pending, graph>>

Next ==
  \/ RealMain
  \/ PrintTrees
  \/ PrintPackage
  \/ PrintDependency

Spec == Init /\ [][Next]_vars

\* ------------------------------------------------------ reading the output
\* The process has returned from real_main / print.
Terminated == pc \in {"done", "error"}

\* The recursion of the renderer went deeper than the stack allows.
OutOfStack == pc = "overflow"

\* The numbers of the package lines and of the header lines of the output.
PkgLineNos == {i \in DOMAIN out : out[i].t = "pkg"}
HeaderNos == {i \in DOMAIN out : out[i].t = "header"}

\* The depth a line is printed at: the root of a tree is at depth 0.
Depth(i) == Len(out[i].levels)

\* The lines of the children printed under package line i.
ChildLines(i) == {j \in PkgLineNos : out[j].parent = i}

\* The earlier lines of the same traversal for the package of line i.
SamePackageEarlier(i) ==
  {j \in PkgLineNos : j < i /\ out[j].tree = out[i].tree /\ out[j].pkg = out[i].pkg}

\* Line j is the first child of its kind under its parent.
FirstOfGroup(j) ==
  \A i \in PkgLineNos :
    (out[i].parent = out[j].parent /\ out[i].kind = out[j].kind) => j <= i

KindIndex(k) == CHOOSE i \in DOMAIN KindSeq : KindSeq[i] = k

\* The order of package identities: by name, then by semantic version
\* (numerically, field by field), then by source.
IdentityLess(p, q) ==
  LET a == PackageIds[p]
      b == PackageIds[q]
  IN  \/ LexLess(a.name, b.name)
      \/ a.name = b.name /\ LexLess(a.version, b.version)
      \/ a.name = b.name /\ a.version = b.version /\ LexLess(a.source, b.source)

\* No package of the graph reaches itself over the graph's edges.
Acyclic(g) ==
  LET E == {<<e.source, e.target>> : e \in BagToSet(g.edges)}
  IN  \A p \in DOMAIN g.node :
        p \notin ReachFrom({e[2] : e \in {f \in E : f[1] = p}}, E)

\* The far end of edge e seen from the traversal's side.
FarEnd(e, dir) == IF dir = "Incoming" THEN e.source ELSE e.target

\* The paths of the graph from a root in direction dir, each as the sequence
\* of its (kind, package) steps behind `path`.  Defined on acyclic graphs.
RECURSIVE PathsFrom(_, _, _, _)
PathsFrom(g, dir, n, path) ==
  LET at == {e \in BagToSet(g.edges) :
               IF dir = "Outgoing" THEN e.source = n ELSE e.target = n}
  IN  {path} \cup
      UNION { PathsFrom(g, dir, FarEnd(e, dir),
                        Append(path, <<e.kind, FarEnd(e, dir)>>)) : e \in at }

\* The number of edge paths of the graph that go through the steps of `path`:
\* parallel edges of one kind between two packages make different paths.
RECURSIVE PathCopies(_, _, _)
PathCopies(g, dir, path) ==
  IF Len(path) <= 1 THEN 1
  ELSE LET n == Len(path)
           near == path[n - 1][2]
           far == path[n][2]
           e == IF dir = "Outgoing"
                THEN [source |-> near, target |-> far, kind |-> path[n][1]]
                ELSE [source |-> far, target |-> near, kind |-> path[n][1]]
       IN  CopiesIn(e, g.edges) * PathCopies(g, dir, Front(path))

\* The package lines of the output, each as <<depth, kind, package>>.
PkgLinesOf(o) ==
  LET ls == SelectSeq(o, LAMBDA l : l.t = "pkg")
  IN  [i \in DOMAIN ls |-> <<Len(ls[i].levels), ls[i].kind, ls[i].pkg>>]

\* The rendering of n and all below it with every path printed in full,
\* without the lines deeper than d, as <<depth, kind, package>> lines.
RECURSIVE FullTree(_, _, _, _, _, _)
RECURSIVE FullGroup(_, _, _, _, _, _)
FullTree(g, dir, kind, n, depth, d) ==
  LET Below(k) == FullGroup(g, dir, k, SortedDeps("main", g, n, dir, k), depth + 1, d)
  IN  <<<<depth, kind, n>>>> \o
      (IF depth >= d THEN <<>>
       ELSE Below("Normal") \o Below("Build") \o Below("Development"))

FullGroup(g, dir, k, deps, depth, d) ==
  IF deps = <<>> THEN <<>>
  ELSE FullTree(g, dir, k, Head(deps), depth, d) \o FullGroup(g, dir, k, Tail(deps), depth, d)

\* ------------------------------------------------------------------ claims
\* C1: rendering with show_all = true and no depth limit always terminates,
\* also on a graph with a cycle reachable from the root, in both renderers.
\* A run that has not terminated either can take a step or is out of stack.
\* The stack budget is larger than the number of packages, so a run is out
\* of stack only along a path that repeats a package, and with `all` set the
\* recursion below a repeated package repeats without end: the rendering
\* terminates exactly if it never gets out of stack.
C1_RenderingTerminates ==
  (args.all /\ args.depth = None) => ~OutOfStack

\* C2: with show_all = false every package of a traversal is expanded at most
\* once: its first line in output order is unmarked and has all its children
\* under it, every later line for it is marked " (*)" and has no children.
\* Stated for runs without a depth limit, at the end of the run.
C2_ExpandedAtMostOnce ==
  (~args.all /\ args.depth = None /\ pc = "done") =>
    \A i \in PkgLineNos :
      IF SamePackageEarlier(i) = {}
      THEN /\ ~out[i].star
           /\ Cardinality(ChildLines(i)) =
                Len(EdgesDirected(graph, out[i].pkg, Direction(args)))
      ELSE /\ out[i].star
           /\ ChildLines(i) = {}

\* C3: with show_all = false a line carries the " (*)" marker only if a line
\* for the same package was printed earlier in the same traversal, for every
\* root and direction and in both renderers.
C3_MarkerOnlyOnRevisit ==
  ~args.all => \A i \in PkgLineNos : out[i].star => SamePackageEarlier(i) # {}

\* C4: with show_all = true and no depth limit on an acyclic graph, each tree
\* has exactly one line per path of the graph from its root in the chosen
\* direction (the root line for the empty path), and no line is marked.
C4_OneLinePerPath ==
  (args.all /\ args.depth = None /\ pc = "done" /\ Acyclic(graph)) =>
    \A t \in 1..tree_no :
      LET lines == {i \in PkgLineNos : out[i].tree = t}
          r == out[CHOOSE i \in lines : out[i].parent = 0].pkg
          paths == PathsFrom(graph, Direction(args), r, << <<"Root", r>> >>)
      IN  /\ \A i \in lines :
                /\ ~out[i].star
                /\ out[i].path \in paths
                /\ Len(out[i].path) = Depth(i) + 1
          /\ \A pi \in paths :
                Cardinality({i \in lines : out[i].path = pi}) =
                  PathCopies(graph, Direction(args), pi)

\* A finished run that printed every path in full, one package of the tree
\* being on two of them, one at depth 2 or more.
C4_Witness ==
  /\ args.all /\ args.depth = None /\ pc = "done" /\ Acyclic(graph)
  /\ \E i, j \in PkgLineNos :
       /\ i < j /\ out[i].tree = out[j].tree /\ out[i].pkg = out[j].pkg
       /\ Depth(j) >= 2

\* C5: with depth limit d, print_dependency prints no package line deeper
\* than d and no group header below a package at depth d, while an unmarked
\* package above depth d has all its children printed, those at depth d
\* included.  With d = 0 each tree is its root line alone: the whole output
\* is that one line when a single tree is printed.
C5_DepthLimit ==
  (prog = "main" /\ args.depth # None) =>
    LET d == Unwrap(args.depth)
    IN  /\ \A i \in PkgLineNos : Depth(i) <= d
        /\ \A h \in HeaderNos : Len(out[h].levels) < d
        /\ pc = "done" =>
              \A i \in PkgLineNos :
                (~out[i].star /\ Depth(i) < d) =>
                  Cardinality(ChildLines(i)) =
                    Len(EdgesDirected(graph, out[i].pkg, Direction(args)))
        /\ (d = 0 /\ pc = "done") =>
              /\ HeaderNos = {}
              /\ \A t \in 1..tree_no :
                    Cardinality({i \in PkgLineNos : out[i].tree = t}) = 1
              /\ \A i \in PkgLineNos : out[i].parent = 0 /\ ~out[i].star
              /\ ~args.duplicates => Len(out) = 1

\* A finished run with a depth limit that left out the children of a package
\* printed at the limit.
C5_Witness ==
  /\ prog = "main" /\ args.depth # None /\ pc = "done"
  /\ \E i \in PkgLineNos :
       /\ Depth(i) = Unwrap(args.depth)
       /\ Depth(i) >= 1
       /\ ~out[i].star
       /\ EdgesDirected(graph, out[i].pkg, Direction(args)) # <<>>
       /\ ChildLines(i) = {}

\* C6: with depth limit d >= 1 and show_all = true, the tree of the workspace
\* package over the graph built with max_depth = d is the unlimited rendering
\* of the same document without its lines deeper than d, in the same order.
\* Stated for the dependency direction, on documents without a cycle.
C6_DepthLimitedIsPrefixOfFull ==
  ( /\ prog = "main" /\ pc = "done" /\ args.all
    /\ args.depth # None /\ args.depth # Some(0)
    /\ args.package = None /\ ~args.duplicates /\ ~args.invert ) =>
    LET full == CHOOSE g \in BuildGraph(doc, None) : TRUE
    IN  Acyclic(full) =>
          PkgLinesOf(out) =
            FullTree(full, "Outgoing", "Root", WorkspaceRoot, 0, Unwrap(args.depth))

\* C7: a package printed at the depth of the limit never carries the " (*)"
\* marker, also with show_all = false and the package already visited.
C7_NoMarkerAtLimit ==
  (prog = "main" /\ args.depth # None) =>
    \A i \in PkgLineNos : Depth(i) = Unwrap(args.depth) => ~out[i].star

\* C8: under every expanded package the children come grouped by kind in the
\* order Normal, Build, Development, and within a group in ascending order
\* of identity (name, semantic version, source).
C8_ChildrenGroupedAndSorted ==
  \A i, j \in PkgLineNos :
    (i < j /\ out[i].parent # 0 /\ out[i].parent = out[j].parent) =>
      /\ KindIndex(out[i].kind) <= KindIndex(out[j].kind)
      /\ out[i].kind = out[j].kind => ~IdentityLess(out[j].pkg, out[i].pkg)

\* C9: a group header is printed exactly when the prefix style is Indent and
\* the expanded package has a child of kind Build or Development, and then
\* immediately before the first child of that group; never for the Normal
\* group, for an empty group, or with the None or Depth prefix.
C9_GroupHeaders ==
  /\ \A h \in HeaderNos :
       /\ args.prefix = "Indent"
       /\ out[h].kind \in {"Build", "Development"}
       /\ IF h < Len(out)
          THEN /\ out[h + 1].t = "pkg"
               /\ out[h + 1].parent = out[h].parent
               /\ out[h + 1].kind = out[h].kind
               /\ FirstOfGroup(h + 1)
          ELSE /\ pc \in {"print", "overflow"}
               /\ call # None
               /\ Unwrap(call).parent = out[h].parent
               /\ Unwrap(call).kind = out[h].kind
  /\ args.prefix = "Indent" =>
       \A j \in PkgLineNos :
         (out[j].kind \in {"Build", "Development"} /\ FirstOfGroup(j)) =>
           /\ out[j - 1].t = "header"
           /\ out[j - 1].kind = out[j].kind
           /\ out[j - 1].parent = out[j].parent
  /\ (args.prefix = "Indent" /\ pc = "done") =>
       \A i \in PkgLineNos : \A k \in {"Build", "Development"} :
         LET expanded == ~out[i].star /\ ~DepthReached(args.depth, Depth(i))
             children == DepsOfKind(graph, out[i].pkg, Direction(args), k)
         IN  (expanded /\ children # <<>>) <=>
               (\E h \in HeaderNos : out[h].parent = i /\ out[h].kind = k)

\* A finished Indent run with a [build-dependencies] and a [dev-dependencies]
\* header, under a package that has a Normal child as well.
C9_Witness ==
  /\ args.prefix = "Indent" /\ pc = "done"
  /\ \E b, d \in HeaderNos : \E j \in PkgLineNos :
       /\ out[b].kind = "Build" /\ out[d].kind = "Development"
       /\ out[b].parent = out[d].parent
       /\ out[j].parent = out[b].parent /\ out[j].kind = "Normal"

\* C10: find_duplicates returns exactly the ids of the graph whose name is
\* shared with another id of the graph, each once, in ascending order of
\* identity (name, semantic version, source).  Its result is the sequence of
\* roots the duplicates mode sets out to print.
C10_FindDuplicates ==
  (args.duplicates /\ out = <<>> /\ pc \in {"print", "done"}) =>
    LET found == IF pc = "done" THEN <<>> ELSE <<Unwrap(call).pkg>> \o roots
        ids == DOMAIN graph.node
        shared == {p \in ids : \E q \in ids :
                     q # p /\ PackageIds[q].name = PackageIds[p].name}
    IN  /\ {found[i] : i \in DOMAIN found} = shared
        /\ Len(found) = Cardinality(shared)
        /\ \A i, j \in DOMAIN found : i < j => IdentityLess(found[i], found[j])

\* ------------------------------------------------- one tree, as a function
\* What a line shows: its sort, package, group, marker and prefix levels.
Shown(l) == <<l.t, l.pkg, l.kind, l.star, l.levels>>

\* The lines of tree t of the output as they are shown, blank lines left out.
TreeShown(t) ==
  LET ls == SelectSeq(out, LAMBDA l : l.tree = t /\ l.t # "blank")
  IN  [i \in DOMAIN ls |-> Shown(ls[i])]

\* The root package of tree t of the output.
TreeRoot(t) ==
  out[CHOOSE i \in PkgLineNos : out[i].tree = t /\ out[i].parent = 0].pkg

\* print_package / print_dependency as the recursive functions they are: the
\* lines one call prints for package n reached as a `kind` child with the
\* prefix levels lv, and the visited set it leaves (tree.rs only).  g is the
\* graph, a the arguments.  Defined where the recursion ends.
RECURSIVE RenderPkg(_, _, _, _, _, _, _)
RECURSIVE RenderKinds(_, _, _, _, _, _, _)
RECURSIVE RenderDeps(_, _, _, _, _, _, _)
RenderPkg(program, g, a, kind, n, lv, visited) ==
  LET new == IF program = "tree" THEN IsNewTree(a.all, visited, n)
             ELSE IsNewMain(a.all, g.node[n], Len(lv))
      v1 == IF program = "tree" THEN VisitedAfter(a.all, visited, n) ELSE visited
      line == <<"pkg", n, kind, ~new, lv>>
      stops == ~new \/ (program = "main" /\ DepthReached(a.depth, Len(lv)))
  IN  IF stops THEN [lines |-> <<line>>, visited |-> v1]
      ELSE LET r == RenderKinds(program, g, a, 1, n, lv, v1)
           IN  [lines |-> <<line>> \o r.lines, visited |-> r.visited]

RenderKinds(program, g, a, ki, n, lv, visited) ==
  IF ki > Len(KindSeq) THEN [lines |-> <<>>, visited |-> visited]
  ELSE LET k == KindSeq[ki]
           deps == SortedDeps(program, g, n, Direction(a), k)
           header == IF deps # <<>> /\ PrintsHeader(a.prefix, k)
                     THEN << <<"header", n, k, FALSE, lv>> >> ELSE <<>>
           r1 == RenderDeps(program, g, a, k, deps, lv, visited)
           r2 == RenderKinds(program, g, a, ki + 1, n, lv, r1.visited)
       IN  [lines |-> header \o r1.lines \o r2.lines, visited |-> r2.visited]

RenderDeps(program, g, a, k, deps, lv, visited) ==
  IF deps = <<>> THEN [lines |-> <<>>, visited |-> visited]
  ELSE LET r1 == RenderPkg(program, g, a, k, Head(deps),
                           Append(lv, Len(deps) > 1), visited)
           r2 == RenderDeps(program, g, a, k, Tail(deps), lv, r1.visited)
       IN  [lines |-> r1.lines \o r2.lines, visited |-> r2.visited]

\* print_tree on root r alone: fresh levels_continue and visited set.
RenderAlone(program, g, a, r) == RenderPkg(program, g, a, "Root", r, <<>>, {}).lines

\* find_duplicates of the running program.
FindDuplicates(program, g) ==
  IF program = "main" THEN FindDuplicatesMain(g) ELSE FindDuplicatesTree(g)

\* C11: in duplicates mode one tree is printed per identity find_duplicates
\* returned, in that order; no tree's root line is marked, and each tree is
\* what print_tree prints for that root alone, starting from an empty visited
\* set.
C11_DuplicateTreesIndependent ==
  args.duplicates =>
    /\ \A i \in PkgLineNos : out[i].parent = 0 => ~out[i].star
    /\ pc = "done" =>
         LET dups == FindDuplicates(prog, graph)
         IN  /\ tree_no = Len(dups)
             /\ \A t \in 1..tree_no :
                   /\ TreeRoot(t) = dups[t]
                   /\ TreeShown(t) = RenderAlone(prog, graph, args, dups[t])

\* A finished duplicates run of tree.rs without --all whose second tree
\* prints in full a package the first tree already printed in full.
C11_Witness ==
  /\ args.duplicates /\ ~args.all /\ prog = "tree" /\ pc = "done" /\ tree_no = 2
  /\ \E i, j \in PkgLineNos :
       /\ out[i].tree = 1 /\ out[j].tree = 2 /\ out[i].pkg = out[j].pkg
       /\ out[j].parent # 0
       /\ ~out[i].star /\ ~out[j].star
       /\ ChildLines(i) # {} /\ ChildLines(j) # {}

\* C12: the children printed under an expanded package n are, without the
\* invert and duplicates flags, exactly the targets of the edges leaving n
\* and, with either flag, exactly the sources of the edges entering n, each
\* in the group of its edge's kind and once per edge.
C12_DirectionSwapsEndpoints ==
  pc = "done" =>
    \A i \in PkgLineNos :
      LET n == out[i].pkg
          expanded == ~out[i].star /\ ~DepthReached(args.depth, Depth(i))
          Edge(k, p) == IF args.invert \/ args.duplicates
                        THEN [source |-> p, target |-> n, kind |-> k]
                        ELSE [source |-> n, target |-> p, kind |-> k]
          Printed(k, p) == {j \in ChildLines(i) : out[j].kind = k /\ out[j].pkg = p}
      IN  IF expanded
          THEN \A k \in Kinds : \A p \in Pkgs :
                 Cardinality(Printed(k, p)) = CopiesIn(Edge(k, p), graph.edges)
          ELSE ChildLines(i) = {}

\* A finished inverted run from a package B other than the workspace package
\* whose only child is a package A with an edge A -> B, B having edges of its
\* own that are not followed.
C12_Witness ==
  /\ pc = "done" /\ args.invert /\ ~args.duplicates
  /\ Len(out) >= 2
  /\ out[1].pkg # WorkspaceRoot
  /\ ChildLines(1) = {2}
  /\ \E k \in Kinds :
       BagIn([source |-> out[2].pkg, target |-> out[1].pkg, kind |-> k], graph.edges)
  /\ \E e \in BagToSet(graph.edges) : e.source = out[1].pkg

\* ------------------------------------------------ find_package, on its own
\* The queries tried: b, c, z, b:0.9.0, b:0.10.0, c:0.9.0, the malformed
\* b:0.9 and b:0.9.0:x with a piece after a second colon.
FindQueries ==
  { <<98>>, <<99>>, <<122>>,
    <<98, 58, 48, 46, 57, 46, 48>>,
    <<98, 58, 48, 46, 49, 48, 46, 48>>,
    <<99, 58, 48, 46, 57, 46, 48>>,
    <<98, 58, 48, 46, 57>>,
    <<98, 58, 48, 46, 57, 46, 48, 58, 120>> }

\* tree.rs with -p QUERY on any document, up to the call of find_package.
FindInit ==
  /\ doc \in Documents
  /\ prog = "tree"
  /\ \E a \in ArgSets("tree"), package \in FindQueries :
       /\ PlainTree(a) /\ ~a.duplicates /\ a.package = None
       /\ a.format = DefaultFormat /\ ~a.no_dev_dependencies
       /\ args = [a EXCEPT !.package = Some(package)]
  /\ current \in {None, Some(WorkspaceRoot)}
  /\ result = None
  /\ kinds = {}
  /\ pending = <<>>
  /\ pc = "start"
  /\ graph = EmptyGraph
  /\ roots = <<>>
  /\ tree_no = 0
  /\ visited_deps = {}
  /\ levels_continue = <<>>
  /\ stack = <<>>
  /\ call = None
  /\ out = <<>>

\* find_package(package, graph) on the graph of the document.
FindPackageCall ==
  /\ pc = "start"
  /\ args.package # None
  /\ graph' = MetadataGraph(doc)
  /\ result' = Some(FindPackageResult(Unwrap(args.package), graph'))
  /\ pc' = "found"
  /\ UNCHANGED <<prog, args, doc, current, kinds, pending, printVars>>

FindNext == FindPackageCall

FindSpec == FindInit /\ [][FindNext]_vars

\* ------------------------------------------- graph.rs: Graph::build
\* Most declarations of a document handed to Graph::build.
MaxGraphDeps == 3
\* Most entries of `pending` followed; on a cycle the stack can grow for ever.
MaxPending == 4

\* The declarations the resolver of graph.rs's cargo follows: development
\* dependencies of the root package only (dev_deps: true), normal and build
\* dependencies of every package.
GraphDecls ==
  { d \in [src : Pkgs, tgt : Pkgs, kind : Kinds, n : {1}] :
      /\ d.src # d.tgt
      /\ d.kind = "Development" => d.src = WorkspaceRoot }

RECURSIVE GraphDocsUpTo(_)
GraphDocsUpTo(k) ==
  IF k = 0 THEN {{}}
  ELSE LET D == GraphDocsUpTo(k - 1)
       IN  D \cup {d \cup {c} : d \in D, c \in GraphDecls}

GraphDocuments == {d \in GraphDocsUpTo(MaxGraphDeps) : WellFormed(d)}

\* petgraph update_edge: the one edge s -> t gets the weight k, or is added.
UpdateEdge(g, s, t, k) ==
  LET others == {e \in BagToSet(g.edges) : ~(e.source = s /\ e.target = t)}
  IN  [g EXCEPT !.edges = SetToBag(others \cup {[source |-> s, target |-> t, kind |-> k]})]

\* resolve.deps(pkg_id)
ResolveDeps(d, pkg_id) == {x.tgt : x \in {y \in d : y.src = pkg_id}}

\* The filter on the declarations of pkg_id by their kind.
KindFilter(pkg_id, root, ks, kind) ==
  \/ pkg_id = root /\ kind \in ks
  \/ pkg_id # root /\ kind = "Normal"

\* The kinds `.map(|d| d.kind()).next()` can yield for dep_id: that of the
\* first declaration of pkg_id that matches dep_id and passes the filter, in
\* the order of the manifest's declarations, which the document leaves open.
FirstKinds(d, pkg_id, dep_id, root, ks) ==
  {x.kind : x \in {y \in d : /\ y.src = pkg_id /\ y.tgt = dep_id
                              /\ KindFilter(pkg_id, root, ks, y.kind)}}

\* The body of `for dep_id in resolve.deps(pkg_id)`: the graph and the stack
\* after the dependencies `it`, kind[dep_id] being what .next() yielded.
RECURSIVE GraphAddDeps(_, _, _, _, _)
GraphAddDeps(g, q, it, pkg_id, kind) ==
  IF it = <<>> THEN [graph |-> g, pending |-> q]
  ELSE
    LET dep_id == Head(it)
    IN  IF kind[dep_id] = None
        THEN GraphAddDeps(g, q, Tail(it), pkg_id, kind)
        ELSE LET g1 == IF HasNode(g, dep_id) THEN g ELSE AddNode(g, dep_id, 0)
             IN  GraphAddDeps(UpdateEdge(g1, pkg_id, dep_id, Unwrap(kind[dep_id])),
                              Append(q, dep_id), Tail(it), pkg_id, kind)

\* The orders a set can be iterated in.
Orders(S) ==
  {o \in [1..Cardinality(S) -> S] : \A i, j \in DOMAIN o : i # j => o[i] # o[j]}

\* Graph::build is called for the root package with some kinds.
GraphInit ==
  /\ doc \in GraphDocuments
  /\ prog = "gtree"
  /\ args \in {a \in ArgSets("tree") : PlainTree(a) /\ ~a.duplicates /\ a.package = None
                                        /\ a.format = DefaultFormat
                                        /\ ~a.no_dev_dependencies}
  /\ current = Some(WorkspaceRoot)
  /\ result = None
  /\ kinds \in (SUBSET Kinds) \ {{}}
  /\ pending = <<>>
  /\ pc = "start"
  /\ graph = EmptyGraph
  /\ roots = <<>>
  /\ tree_no = 0
  /\ visited_deps = {}
  /\ levels_continue = <<>>
  /\ stack = <<>>
  /\ call = None
  /\ out = <<>>

\* Graph::build up to its loop: the root is the first node and is pending.
GraphBuildStart ==
  /\ pc = "start"
  /\ graph' = AddNode(EmptyGraph, Unwrap(current), 0)
  /\ pending' = <<Unwrap(current)>>
  /\ pc' = "build"
  /\ UNCHANGED <<prog, args, doc, current, result, kinds, printVars>>

\* One iteration of `while let Some(pkg_id) = pending.pop()`.
GraphBuildStep ==
  /\ pc = "build"
  /\ pending # <<>>
  /\ LET pkg_id == pending[Len(pending)]
         root == Unwrap(current)
         deps == ResolveDeps(doc, pkg_id)
     IN  \E it \in Orders(deps) :
         \E kind \in [deps -> {None} \cup {Some(k) : k \in Kinds}] :
           /\ \A dep_id \in deps :
                LET first == FirstKinds(doc, pkg_id, dep_id, root, kinds)
                IN  IF first = {} THEN kind[dep_id] = None
                    ELSE kind[dep_id] # None /\ Unwrap(kind[dep_id]) \in first
           /\ LET b == GraphAddDeps(graph, Front(pending), it, pkg_id, kind)
              IN  /\ graph' = b.graph
                  /\ IF Len(b.pending) > MaxPending
                     THEN pending' = <<>> /\ pc' = "exhausted"
                     ELSE pending' = b.pending /\ pc' = "build"
  /\ UNCHANGED <<prog, args, doc, current, result, kinds, printVars>>

\* The loop ends on the empty stack and the graph is returned.
GraphBuildReturn ==
  /\ pc = "build"
  /\ pending = <<>>
  /\ pc' = "built"
  /\ UNCHANGED <<prog, args, doc, current, result, kinds, pending, graph, printVars>>

GraphNext ==
  \/ GraphBuildStart
  \/ GraphBuildStep
  \/ GraphBuildReturn

GraphSpec == GraphInit /\ [][GraphNext]_vars

\* Graph::build runs as one sequential loop: a step that can be taken is
\* taken.
GraphLiveSpec == GraphSpec /\ WF_vars(GraphNext)

\* The strings that are the display of a version.
VersionStrs == {VersionStr(v) : v \in [1..3 -> 0..10]}

\* The nodes matching a query as the claim has it: the query is the node's
\* name, or its name and version as name:version.
MatchingNodes(query, g) ==
  {p \in DOMAIN g.node : query = PackageIds[p].name \/ query = NameVersion(p)}

\* The nodes matching a query whose pieces after a second colon are dropped.
MatchingPieces(query, g) ==
  LET it == Split(query, 58)
  IN  {p \in DOMAIN g.node :
         /\ PackageIds[p].name = it[1]
         /\ Len(it) >= 2 => VersionStr(PackageIds[p].version) = it[2]}

\* The outcome of find_package given the nodes that match the query.
FoundAmong(r, m) ==
  /\ r.ok <=> Cardinality(m) = 1
  /\ r.ok => r.id \in m
  /\ m = {} => (~r.ok /\ r.error = "no crates found for package" /\ r.specs = <<>>)
  /\ Cardinality(m) > 1 =>
       /\ ~r.ok /\ r.error = "multiple crates found for package"
       /\ Len(r.specs) = Cardinality(m)
       /\ {r.specs[i] : i \in DOMAIN r.specs} = {NameVersion(p) : p \in m}

\* C13, as stated: find_package succeeds exactly when one graph node matches
\* the query (same name and, for name:version, same version) and returns it;
\* with no matching node it returns the not-found error, with several the
\* ambiguity error listing the candidates.
C13_FindPackageAsStated ==
  pc = "found" => FoundAmong(Unwrap(result), MatchingNodes(Unwrap(args.package), graph))

\* C13, amended: a query whose second piece (between the first and the second
\* colon) is not a version fails with a version parse error whatever the
\* graph holds; otherwise the pieces after a second colon are ignored and
\* find_package succeeds exactly when one node has the name and, if given,
\* the version, returning it; with none it fails with the not-found error,
\* which names no candidate; with several it fails with the ambiguity error,
\* which lists every candidate once as name:version.
C13_FindPackage ==
  pc = "found" =>
    LET it == Split(Unwrap(args.package), 58)
        r == Unwrap(result)
    IN  IF Len(it) >= 2 /\ it[2] \notin VersionStrs
        THEN ~r.ok /\ r.error = "error parsing package version"
        ELSE FoundAmong(r, MatchingPieces(Unwrap(args.package), graph))

\* b:0.9.0 is asked for and names b 0.9.0 alone; or b is asked for and both
\* b 0.9.0 and b 0.10.0 are candidates.
C13_Witness ==
  /\ pc = "found"
  /\ \/ /\ args.package = Some(<<98, 58, 48, 46, 57, 46, 48>>)
        /\ {3, 4} \subseteq DOMAIN graph.node
        /\ result = Some(Ok(4))
     \/ /\ args.package = Some(<<98>>)
        /\ ~Unwrap(result).ok
        /\ Len(Unwrap(result).specs) = 2

\* ---------------------------------------------------------- errors first
\* C14: a run that ends in an error (unsupported format, root not found,
\* ambiguous query, no designated root) has written no line before the error
\* is returned: where a line has been written the pattern has parsed, the
\* first tree's root is resolved and no error is or will be returned.
C14_ErrorsBeforeOutput ==
  /\ (pc = "error") <=> (result # None)
  /\ pc = "error" => (out = <<>> /\ call = None /\ tree_no = 0 /\ ~Unwrap(result).ok)
  /\ (out # <<>> \/ call # None) =>
       /\ PatternNew(args.format)
       /\ tree_no >= 1
       /\ result = None

\* A run on a document with dependencies that ended on the unsupported
\* format, and one with -p b that ended on the two candidates for b.
C14_Witness ==
  /\ pc = "error"
  /\ out = <<>>
  /\ \/ Unwrap(result).error = "unsupported pattern" /\ Cardinality(doc) >= 2
     \/ /\ args.package # None
        /\ {3, 4} \subseteq Resolved(doc)
        /\ Unwrap(result).error \in {"multiple crates found for package",
                                     "package id specification did not match one package"}

\* -------------------------------------------------------- the built graph
\* C15: in the built graph there is, for every ordered pair of packages
\* (s, t) and every kind k, at most one edge s -> t of kind k, however many
\* declarations of s with kind k match t.
C15_OneEdgePerKind ==
  \A e \in BagToSet(graph.edges) : CopiesIn(e, graph.edges) <= 1

\* Whether the manifest of s declares the resolved package t with kind k.
Declares(s, t, k) == \E x \in doc : x.src = s /\ x.tgt = t /\ x.kind = k

\* The number of edges s -> t of kind k in the graph.
EdgeCount(g, s, t, k) == CopiesIn([source |-> s, target |-> t, kind |-> k], g.edges)

\* C16: when a package s of the graph declares the same resolved package t
\* under two different kinds (both among the requested kinds if s is the
\* root), the graph Graph::build returns holds an edge s -> t of each of the
\* two kinds; the kinds are not merged into one edge.
C16_TwoKindsTwoEdges ==
  pc = "built" =>
    \A s \in DOMAIN graph.node, t \in Pkgs, k1, k2 \in Kinds :
      ( /\ k1 # k2
        /\ Declares(s, t, k1) /\ Declares(s, t, k2)
        /\ s = Unwrap(current) => {k1, k2} \subseteq kinds )
      => (EdgeCount(graph, s, t, k1) = 1 /\ EdgeCount(graph, s, t, k2) = 1)

\* The packages reachable from root over the declarations of d: out of root
\* those whose kind is in ks, out of any other package all of them.
Retained(d, root, ks) ==
  ReachFrom({root}, DeclPairs({x \in d : x.src = root => x.kind \in ks}))

\* C17: Graph::build retains exactly the packages reachable from the root by
\* following, out of the root, the dependencies whose kind is requested and,
\* out of every other package, its dependencies of any kind; and every edge
\* of the graph joins two retained packages.
C17_RetainsReachable ==
  pc = "built" =>
    /\ DOMAIN graph.node = Retained(doc, Unwrap(current), kinds)
    /\ \A e \in BagToSet(graph.edges) :
         {e.source, e.target} \subseteq DOMAIN graph.node

\* C18: with no_dev_dependencies the built graph contains no edge of kind
\* Development, also when the same target package is declared both as a
\* normal and as a development dependency of its parent.
C18_NoDevelopmentEdges ==
  (args.no_dev_dependencies /\ pc # "start") =>
    \A e \in BagToSet(graph.edges) : e.kind # "Development"

\* ------------------------------------------------------------ determinism
\* What a run of main.rs prints when build_graph returns g: the trees of the
\* duplicates of g, or the tree of the root r.
RenderRun(g, a, r) ==
  LET rs == IF a.duplicates THEN FindDuplicatesMain(g) ELSE <<r>>
  IN  [t \in DOMAIN rs |-> RenderAlone("main", g, a, rs[t])]

\* C19: the output is the same whatever order the resolver yields the
\* dependencies of a package in: what a finished run of main.rs has printed
\* is what it prints on every graph build_graph can return for the same
\* resolved input and arguments.
C19_Deterministic ==
  (prog = "main" /\ pc = "done") =>
    \A g \in BuildGraph(doc, BuildMaxDepth(args)) :
      RenderRun(g, args, IF args.duplicates THEN WorkspaceRoot ELSE TreeRoot(1))
        = [t \in 1..tree_no |-> TreeShown(t)]

\* ------------------------------------------------------ depth_first_seen
\* The number of edges on a shortest path of g from a package of S to p, S
\* being the packages at distance k from where the search began.
RECURSIVE DistanceFrom(_, _, _, _)
DistanceFrom(g, S, p, k) ==
  IF p \in S THEN k
  ELSE DistanceFrom(g, S \cup {e.target : e \in {f \in BagToSet(g.edges) : f.source \in S}},
                    p, k + 1)

\* C20: after build_graph without a depth limit, depth_first_seen of every
\* package is its breadth-first distance from the root: the number of edges
\* on a shortest path from the root to it, 0 for the root.
C20_DepthFirstSeenIsDistance ==
  (prog = "main" /\ pc # "start" /\ BuildMaxDepth(args) = None) =>
    \A p \in DOMAIN graph.node :
      graph.node[p].depth_first_seen = DistanceFrom(graph, {WorkspaceRoot}, p, 0)

\* ---------------------------------------------------------- the prefixes
\* The characters printed before the package of line i.
PrefixOf(i, symbols) == PackagePrefix(prog, args.prefix, symbols, out[i].levels)

\* The line of the ancestor of line i (or i itself) that is m levels deep.
RECURSIVE AncestorAt(_, _)
AncestorAt(i, m) ==
  IF Len(out[i].levels) <= m THEN i ELSE AncestorAt(out[i].parent, m)

\* Whether another child of the parent of line i is printed after line i.
LaterSibling(i) ==
  \E j \in PkgLineNos :
    j > i /\ out[j].tree = out[i].tree /\ out[j].parent = out[i].parent

\* C21: in Indent style the branch glyph of a child line is the tee exactly
\* when another child of the same parent is printed after it, over all kind
\* groups, and the ell exactly when it is the last child printed under that
\* parent; for each ancestor level the continuation glyph is printed exactly
\* when a later sibling is still to be printed at that level, a blank
\* otherwise.
C21_BranchGlyphs ==
  (args.prefix = "Indent" /\ pc = "done") =>
    \A i \in PkgLineNos :
      LET d == Len(out[i].levels)
          text == PrefixOf(i, UTF8_SYMBOLS)
      IN  /\ Len(text) = 4 * d
          /\ d > 0 =>
               /\ text[4 * d - 3] = IF LaterSibling(i) THEN UTF8_SYMBOLS.tee
                                     ELSE UTF8_SYMBOLS.ell
               /\ \A m \in 1..(d - 1) :
                    text[4 * m - 3] = IF LaterSibling(AncestorAt(i, m))
                                      THEN UTF8_SYMBOLS.down ELSE 32

\* The number of ancestors of line i on its printed path.
Ancestors(i) == Len(out[i].path) - 1

\* C22: in Depth style every package line begins with the package's depth,
\* the number of its ancestors on the printed path (0 for the root),
\* followed by a separator; levels_continue is as long as the depth of the
\* package whenever a line is about to be printed, and empty again when the
\* traversal has ended.
C22_DepthPrefix ==
  args.prefix = "Depth" =>
    /\ \A i \in PkgLineNos :
         LET text == PrefixOf(i, UTF8_SYMBOLS)
             depth == Digits(Ancestors(i))
         IN  /\ Len(out[i].levels) = Ancestors(i)
             /\ Len(text) > Len(depth)
             /\ SubSeq(text, 1, Len(depth)) = depth
             /\ text[Len(depth) + 1] \notin 48..57
    /\ call # None => Len(levels_continue) = Len(Unwrap(call).path)
    /\ pc = "done" => levels_continue = <<>>

\* ------------------------------------------------------------ termination
\* C23: graph construction terminates on every finite resolved input, also
\* one in which packages depend on each other in a cycle: the work list of
\* Graph::build becomes empty and the graph is returned.  (A run whose work
\* list outgrows MaxPending is left undecided and counted as ended.)
C23_BuildTerminates == <>(pc \in {"built", "exhausted"})

====
